---------------------------- MODULE Spec2Model ----------------------------
(***************************************************************************)
(* Model of app.py: the P/E resolver get_pe_ratio_robust, the batch table  *)
(* generate_summary_table and the single-ticker analysis block.            *)
(*                                                                         *)
(* Numbers.  EPS values and exchange rates are kept in tenths (1.0 is 10,  *)
(* 32.5 is 325); prices, RSI and moving averages are whole numbers.  A P/E *)
(* is an exact fraction [n, d] with d > 0; None is the fraction with d = 0.*)
(* External calls (yfinance, pandas_ta) are inputs: what each call returns *)
(* or that it raises.                                                      *)
(***************************************************************************)
EXTENDS Integers, Sequences, FiniteSets, TLC

VARIABLES call, phase, tickers, idx, summary_list, loc, visited, failed, detail

vars == <<call, phase, tickers, idx, summary_list, loc, visited, failed, detail>>

(***************************************************************************)
(* Values                                                                  *)
(***************************************************************************)
Rat(n, d) == [n |-> n, d |-> d]

None == Rat(0, 0)

Whole(k) == Rat(k, 1)

\* a < k for a fraction a (not None) and an integer k
LtInt(a, k) == a.n < k * a.d

\* a > k for a fraction a (not None) and an integer k
GtInt(a, k) == a.n > k * a.d

\* Python truthiness of a float-or-None: None and 0.0 are falsy
Truthy(v) == v # None /\ v.n # 0

\* a cell of a statement or indicator: NaN or a number
NaN == [na |-> TRUE, v |-> 0]

Num(k) == [na |-> FALSE, v |-> k]

NoKey == "<no key>"

(***************************************************************************)
(* Program constants                                                       *)
(***************************************************************************)
UnitRate == 10

TsmFallbackRate == 325

AdrTSM == 5

Periods == 4

MinPE == 5

(***************************************************************************)
(* Bounds                                                                  *)
(***************************************************************************)
MaxLen == 5

MaxTickers == 2

(***************************************************************************)
(* get_pe_ratio_robust                                                     *)
(***************************************************************************)
\* the info dict the except branch substitutes
EmptyInfo ==
    [kind |-> "dict", trailingPE |-> None, forwardPE |-> None,
     currency |-> NoKey, financialCurrency |-> NoKey]

ReportedPENoReturn(yf_info) ==
    [returned |-> FALSE, value |-> None,
     info |-> IF yf_info.kind = "raise" THEN EmptyInfo ELSE yf_info]

\* step 1: the reported P/E.  [returned, value, info]
ReportedPE(yf_info) ==
    IF yf_info.kind = "raise"
    THEN [returned |-> FALSE, value |-> None, info |-> EmptyInfo]
    ELSE IF yf_info.kind = "none"
    THEN [returned |-> FALSE, value |-> None, info |-> yf_info]
    ELSE IF Truthy(yf_info.trailingPE)
    THEN [returned |-> TRUE, value |-> yf_info.trailingPE, info |-> yf_info]
    ELSE IF Truthy(yf_info.forwardPE)
    THEN [returned |-> TRUE, value |-> yf_info.forwardPE, info |-> yf_info]
    ELSE [returned |-> FALSE, value |-> None, info |-> yf_info]

StockCurrency(info) ==
    IF info.currency = NoKey THEN "USD" ELSE info.currency

FinCurrency(ticker_symbol, info) ==
    LET f == IF info.financialCurrency = NoKey
             THEN StockCurrency(info)
             ELSE info.financialCurrency
    IN  IF ticker_symbol = "TSM" /\ f = "USD" THEN "TWD" ELSE f

\* the exchange rate in tenths after the currency block
ExchangeRate(ticker_symbol, info, yf_rate) ==
    IF StockCurrency(info) # FinCurrency(ticker_symbol, info)
    THEN IF yf_rate.kind = "raise"
         THEN IF ticker_symbol = "TSM" THEN TsmFallbackRate ELSE UnitRate
         ELSE IF yf_rate.kind = "rows" /\ yf_rate.close > 0
         THEN yf_rate.close
         ELSE UnitRate
    ELSE UnitRate

\* DataFrame.empty: no rows or no columns
Empty(stmt) == stmt.rows = <<>> \/ stmt.rows[1].vals = <<>>

\* name.lower() in str(idx).lower() for one of possible_names
IsEpsLabel(label) ==
    label \in {"Basic EPS", "Diluted EPS", "BasicEPS", "DilutedEPS",
               "basic eps", "Normalized Diluted EPS"}

\* the first row of the index whose label matches; 0 when none does
EpsRowIndex(rows) ==
    IF \E k \in 1..Len(rows) : IsEpsLabel(rows[k].label)
    THEN CHOOSE k \in 1..Len(rows) :
            /\ IsEpsLabel(rows[k].label)
            /\ \A j \in 1..(k - 1) : ~IsEpsLabel(rows[j].label)
    ELSE 0

RECURSIVE Vals(_)
\* [v for v in vals if pd.notna(v) and v != 0]
Vals(cells) ==
    IF cells = <<>> THEN <<>>
    ELSE LET c == Head(cells)
         IN  IF ~c.na /\ c.v # 0
             THEN <<c.v>> \o Vals(Tail(cells))
             ELSE Vals(Tail(cells))

RECURSIVE Sum(_)
Sum(s) == IF s = <<>> THEN 0 ELSE Head(s) + Sum(Tail(s))

TtmEpsRawShortSum(vals) ==
    IF Len(vals) >= Periods THEN Sum(SubSeq(vals, 1, Periods - 1))
    ELSE IF Len(vals) > 0 THEN vals[1] * 4
    ELSE 0

TtmEpsRaw(vals) ==
    IF Len(vals) >= Periods THEN Sum(SubSeq(vals, 1, Periods))
    ELSE IF Len(vals) > 0 THEN vals[1] * 4
    ELSE 0

AdrMultiplier(ticker_symbol) ==
    IF ticker_symbol = "TSM" THEN AdrTSM ELSE 1

\* pe = current_price / ((ttm_eps_raw * adr_multiplier) / exchange_rate)
ComputedPE(ticker_symbol, current_price, ttm_eps_raw, exchange_rate) ==
    IF ttm_eps_raw > 0
       /\ ttm_eps_raw * AdrMultiplier(ticker_symbol) * exchange_rate > 0
    THEN Rat(current_price * exchange_rate,
             ttm_eps_raw * AdrMultiplier(ticker_symbol))
    ELSE None

SanityCheckOff(pe) == pe

SanityCheck(pe) ==
    IF pe # None /\ LtInt(pe, MinPE) THEN None ELSE pe

\* what the call leaves behind: whether it raised, the value returned, the
\* steps it executed in order, and its locals at exit
Outcome(raised, ret, trace, rate, ttm, computed) ==
    [raised |-> raised, ret |-> ret, trace |-> trace,
     exchange_rate |-> rate, ttm_eps_raw |-> ttm, pe_computed |-> computed]

\* step 2 from the statement fetch on, inside the outer try
FromStatement(ticker_symbol, current_price, yf, rate, trace) ==
    IF yf.quarterly.kind = "raise"
    THEN Outcome(FALSE, None, trace \o <<"quarterly_income_stmt">>, rate, 0, None)
    ELSE
    LET useAnnual == Empty(yf.quarterly)
        t1 == trace \o <<"quarterly_income_stmt">>
                    \o (IF useAnnual THEN <<"income_stmt">> ELSE <<>>)
    IN  IF useAnnual /\ yf.annual.kind = "raise"
        THEN Outcome(FALSE, None, t1, rate, 0, None)
        ELSE
        LET stmt == IF useAnnual THEN yf.annual ELSE yf.quarterly
            k == IF Empty(stmt) THEN 0 ELSE EpsRowIndex(stmt.rows)
        IN  IF k = 0
            THEN Outcome(FALSE, SanityCheck(None), t1 \o <<"sanity">>, rate, 0, None)
            ELSE
            LET ttm == TtmEpsRaw(Vals(stmt.rows[k].vals))
                pe == ComputedPE(ticker_symbol, current_price, ttm, rate)
            IN  Outcome(FALSE, SanityCheck(pe), t1 \o <<"eps", "sanity">>,
                        rate, ttm, pe)

get_pe_ratio_robust(ticker_symbol, current_price, yf) ==
    IF yf.ctor = "raise"
    THEN Outcome(TRUE, None, <<"Ticker">>, UnitRate, 0, None)
    ELSE
    LET s1 == ReportedPE(yf.info)
    IN  IF s1.returned
        THEN Outcome(FALSE, s1.value, <<"Ticker", "info">>, UnitRate, 0, None)
        ELSE IF s1.info.kind = "none"
        THEN Outcome(FALSE, None, <<"Ticker", "info", "currency">>, UnitRate, 0, None)
        ELSE
        LET differ == StockCurrency(s1.info) # FinCurrency(ticker_symbol, s1.info)
            rate == ExchangeRate(ticker_symbol, s1.info, yf.rate)
            t0 == <<"Ticker", "info", "currency">>
                    \o (IF differ THEN <<"rate">> ELSE <<>>)
        IN  FromStatement(ticker_symbol, current_price, yf, rate, t0)

(***************************************************************************)
(* The inputs of a call: what the fake data source does                    *)
(***************************************************************************)
Tickers == {"AAPL", "TSM"}

Prices == {20, 100, 215}

PEVals == {None, Whole(0), Whole(-8), Whole(30)}

Infos ==
    {[kind |-> "raise", trailingPE |-> None, forwardPE |-> None,
      currency |-> NoKey, financialCurrency |-> NoKey],
     [kind |-> "none", trailingPE |-> None, forwardPE |-> None,
      currency |-> NoKey, financialCurrency |-> NoKey]}
    \cup [kind : {"dict"}, trailingPE : PEVals, forwardPE : PEVals,
          currency : {NoKey, "USD"}, financialCurrency : {NoKey, "USD", "TWD"}]

Rates ==
    {[kind |-> "raise", close |-> 0], [kind |-> "empty", close |-> 0],
     [kind |-> "rows", close |-> 0], [kind |-> "rows", close |-> 320]}

Row(label, cells) == [label |-> label, vals |-> cells]

Frame(rows) == [kind |-> "frame", rows |-> rows]

RaisingStmt == [kind |-> "raise", rows |-> <<>>]

SomeCells ==
    {<<>>, <<Num(10)>>, <<Num(-10)>>, <<NaN, Num(0)>>, <<Num(10), Num(12)>>,
     <<Num(400), Num(380)>>, <<Num(10), Num(11), Num(12), Num(9)>>,
     <<Num(2000), Num(1900), Num(1800), Num(1700)>>}

Statements ==
    {RaisingStmt, Frame(<<>>)}
    \cup {Frame(<<Row(l, c)>>) :
            l \in {"Net Income", "Basic EPS", "Diluted EPS"}, c \in SomeCells}
    \cup {Frame(<<Row(l1, <<Num(10)>>), Row(l2, <<Num(400)>>)>>) :
            l1 \in {"Net Income", "Diluted EPS"}, l2 \in {"Net Income", "Basic EPS"}}

AnnualStatements ==
    {RaisingStmt, Frame(<<>>), Frame(<<Row("Basic EPS", <<Num(40)>>)>>),
     Frame(<<Row("Net Income", <<Num(40)>>)>>)}

\* the annual statement is read only when the quarterly one is empty
FakeSources ==
    [ctor : {"ok", "raise"}, info : Infos, rate : Rates,
     quarterly : {s \in Statements : s.kind = "raise" \/ ~Empty(s)},
     annual : {Frame(<<>>)}]
    \cup
    [ctor : {"ok", "raise"}, info : Infos, rate : Rates,
     quarterly : {s \in Statements : s.kind # "raise" /\ Empty(s)},
     annual : AnnualStatements]

NoCall ==
    [done |-> FALSE, ticker_symbol |-> "", current_price |-> 0,
     yf |-> [ctor |-> "ok", info |-> EmptyInfo, rate |-> [kind |-> "empty", close |-> 0],
             quarterly |-> Frame(<<>>), annual |-> Frame(<<>>)],
     out |-> Outcome(FALSE, None, <<>>, UnitRate, 0, None)]

\* the resolver is called with a ticker, a price and a data source
Resolve ==
    /\ ~call.done
    /\ \E t \in Tickers, p \in Prices, yf \in FakeSources :
          call' = [done |-> TRUE, ticker_symbol |-> t, current_price |-> p,
                   yf |-> yf, out |-> get_pe_ratio_robust(t, p, yf)]
    /\ UNCHANGED <<phase, tickers, idx, summary_list, loc, visited, failed, detail>>

\* the same call on a statement holding one EPS row of any shape
EpsCells == {NaN, Num(0), Num(-10), Num(9), Num(10), Num(11), Num(12)}

EpsRows == UNION {[1..n -> EpsCells] : n \in 0..MaxLen}

EpsSource(cells) ==
    [ctor |-> "ok", info |-> EmptyInfo, rate |-> [kind |-> "empty", close |-> 0],
     quarterly |-> Frame(<<Row("Net Income", [k \in 1..Len(cells) |-> Num(500)]),
                           Row("Basic EPS", cells)>>),
     annual |-> Frame(<<>>)]

ResolveEps ==
    /\ ~call.done
    /\ \E t \in Tickers, cells \in EpsRows :
          call' = [done |-> TRUE, ticker_symbol |-> t, current_price |-> 100,
                   yf |-> EpsSource(cells),
                   out |-> get_pe_ratio_robust(t, 100, EpsSource(cells))]
    /\ UNCHANGED <<phase, tickers, idx, summary_list, loc, visited, failed, detail>>

(***************************************************************************)
(* generate_summary_table                                                  *)
(***************************************************************************)
Window == 50

RsiDefault == 50

RsiLow == 30

RsiHigh == 70

PeLow == 25

PeHigh == 60

BuyScore == 7

HoldScore == 4

\* rsi = df['RSI'].iloc[-1] if pd.notna(...) else 50
BatchRsi(cell) == IF ~cell.na THEN cell.v ELSE RsiDefault

\* ma_50 = rolling(50).mean().iloc[-1] if len(df) >= 50 else current_price
BatchMa50(d) == IF d.nbars >= Window THEN d.mean50.v ELSE d.close

RsiScore(rsi) ==
    IF rsi < RsiLow THEN 3 ELSE IF rsi > RsiHigh THEN -2 ELSE 1

TrendScoreNoPenalty(current_price, ma_50) ==
    IF current_price > ma_50 THEN 3 ELSE 0

TrendScore(current_price, ma_50) ==
    IF current_price > ma_50 THEN 3 ELSE -1

PeScore(pe) ==
    IF Truthy(pe)
    THEN IF LtInt(pe, PeLow) THEN 4 ELSE IF GtInt(pe, PeHigh) THEN -2 ELSE 2
    ELSE 1

Suggestion(score) ==
    IF score >= BuyScore THEN "buy" ELSE IF score >= HoldScore THEN "hold" ELSE "sell"

NoLocals ==
    [rsi |-> 0, current_price |-> 0, ma_50 |-> 0, pe |-> None, score |-> 0, nbars |-> 0]

\* one pass of the loop body for ticker t: skipped by continue, ended by the
\* except clause, or a row appended
LoopBody(t, d, yf) ==
    IF d.kind = "missing" THEN [status |-> "skip", locals |-> NoLocals]
    ELSE IF d.nbars = 0 THEN [status |-> "skip", locals |-> NoLocals]
    ELSE IF d.nbars < 2 THEN [status |-> "except", locals |-> NoLocals]
    ELSE IF d.rsi.kind = "raise" THEN [status |-> "except", locals |-> NoLocals]
    ELSE
    LET current_price == d.close
        rsi == BatchRsi(d.rsi.cell)
        ma_50 == BatchMa50(d)
        r == get_pe_ratio_robust(t, current_price, yf)
        score == RsiScore(rsi) + TrendScore(current_price, ma_50) + PeScore(r.ret)
    IN  IF r.raised THEN [status |-> "except", locals |-> NoLocals]
        ELSE [status |-> "row",
              locals |-> [rsi |-> rsi, current_price |-> current_price,
                          ma_50 |-> ma_50, pe |-> r.ret, score |-> score,
                          nbars |-> d.nbars]]

\* the row appended to summary_list: its ticker, whether the P/E column
\* shows a number, the suggestion and the score
SummaryRow(t, l) ==
    [ticker |-> t, pe_available |-> Truthy(l.pe),
     suggestion |-> Suggestion(l.score), score |-> l.score]

\* except Exception: continue
AfterBodyBreak(i, n, status) == IF status = "except" THEN n ELSE i + 1

AfterBody(i, n, status) == i + 1

TickerLists == UNION {[1..n -> Tickers] : n \in 0..MaxTickers}

RsiOutcomes ==
    {[kind |-> "raise", cell |-> NaN]}
    \cup [kind : {"ok"}, cell : {NaN, Num(20), Num(30), Num(70), Num(80)}]

MissingColumn ==
    [kind |-> "missing", nbars |-> 0, close |-> 0, mean50 |-> NaN,
     rsi |-> [kind |-> "ok", cell |-> NaN]]

ShortFrame(n) ==
    [kind |-> "frame", nbars |-> n, close |-> 100, mean50 |-> NaN,
     rsi |-> [kind |-> "ok", cell |-> NaN]]

\* the rolling mean at the last bar is NaN with fewer than 50 bars
Data ==
    {MissingColumn, ShortFrame(0), ShortFrame(1)}
    \cup [kind : {"frame"}, nbars : {Window - 1}, close : {100},
          mean50 : {NaN}, rsi : RsiOutcomes]
    \cup [kind : {"frame"}, nbars : {Window}, close : {100},
          mean50 : {Num(90), Num(100)}, rsi : RsiOutcomes]

InfoWith(pe) ==
    [kind |-> "dict", trailingPE |-> pe, forwardPE |-> None,
     currency |-> "USD", financialCurrency |-> "USD"]

Source(ctor, info, quarterly) ==
    [ctor |-> ctor, info |-> info, rate |-> [kind |-> "empty", close |-> 0],
     quarterly |-> quarterly, annual |-> Frame(<<>>)]

\* sources whose resolved P/E falls in each band, or is unavailable, or raises
BatchSources ==
    {Source("ok", InfoWith(pe), Frame(<<>>)) :
        pe \in {None, Whole(-8), Whole(20), Whole(80)}}
    \cup {Source("ok", InfoWith(None), Frame(<<Row("Basic EPS", <<Num(10)>>)>>)),
          Source("raise", InfoWith(None), Frame(<<>>))}

\* what makes a ticker's processing fail, read off the inputs
Fails(d, yf) ==
    \/ d.kind = "missing"
    \/ d.nbars <= 1
    \/ d.rsi.kind = "raise"
    \/ yf.ctor = "raise"

Iterate ==
    /\ phase = "loop"
    /\ idx < Len(tickers)
    /\ \E d \in Data, yf \in BatchSources :
          LET t == tickers[idx + 1]
              b == LoopBody(t, d, yf)
          IN  /\ idx' = AfterBody(idx, Len(tickers), b.status)
              /\ summary_list' = IF b.status = "row"
                                 THEN Append(summary_list, SummaryRow(t, b.locals))
                                 ELSE summary_list
              /\ loc' = IF b.status = "row" THEN <<b.locals>> ELSE <<>>
              /\ visited' = Append(visited, t)
              /\ failed' = Append(failed, Fails(d, yf))
    /\ UNCHANGED <<call, phase, tickers, detail>>

\* return pd.DataFrame(summary_list)
ReturnTable ==
    /\ phase = "loop"
    /\ idx >= Len(tickers)
    /\ phase' = "returned"
    /\ loc' = <<>>
    /\ UNCHANGED <<call, tickers, idx, summary_list, visited, failed, detail>>

(***************************************************************************)
(* The single-ticker analysis                                              *)
(***************************************************************************)
\* current_ma50 = ma50.iloc[-1] if not pd.isna(ma50.iloc[-1]) else 0
CurrentMa50(d) == IF ~d.mean50.na THEN d.mean50.v ELSE 0

Line(signal, marker) == [signal |-> signal, marker |-> marker]

RsiLine(cell) ==
    IF ~cell.na /\ cell.v < RsiLow THEN Line("RSI", "ok")
    ELSE IF ~cell.na /\ cell.v > RsiHigh THEN Line("RSI", "warn")
    ELSE Line("RSI", "info")

TrendLine(current_price, current_ma50) ==
    IF current_price > current_ma50 THEN Line("Trend", "ok")
    ELSE Line("Trend", "warn")

PeLine(pe) ==
    IF Truthy(pe)
    THEN IF LtInt(pe, PeLow) THEN Line("PE", "ok")
         ELSE IF GtInt(pe, PeHigh) THEN Line("PE", "warn")
         ELSE Line("PE", "info")
    ELSE Line("PE", "warn")

ReasonsPeBeforeTrend(current_price, current_rsi, current_ma50, pe) ==
    Append(Append(Append(<<>>, RsiLine(current_rsi)), PeLine(pe)),
           TrendLine(current_price, current_ma50))

\* reasons = []; then one append per block, in the order of the code
Reasons(current_price, current_rsi, current_ma50, pe) ==
    Append(Append(Append(<<>>, RsiLine(current_rsi)),
                  TrendLine(current_price, current_ma50)),
           PeLine(pe))

\* the block under "if not df.empty": no try around the resolver or ta.rsi
Analyse ==
    /\ phase = "idle"
    /\ \E t \in Tickers, d \in Data, yf \in BatchSources :
          /\ d.kind = "frame"
          /\ d.nbars >= 1
          /\ LET r == get_pe_ratio_robust(t, d.close, yf)
             IN  IF r.raised \/ d.rsi.kind = "raise"
                 THEN /\ phase' = "crashed"
                      /\ detail' = <<>>
                 ELSE /\ phase' = "analysed"
                      /\ detail' = <<[target_ticker |-> t,
                                      nbars |-> d.nbars,
                                      current_price |-> d.close,
                                      current_rsi |-> d.rsi.cell,
                                      current_ma50 |-> CurrentMa50(d),
                                      pe |-> r.ret,
                                      reasons |-> Reasons(d.close, d.rsi.cell,
                                                          CurrentMa50(d), r.ret)]>>
    /\ UNCHANGED <<call, tickers, idx, summary_list, loc, visited, failed>>

(***************************************************************************)
(* Specifications                                                          *)
(***************************************************************************)
Init ==
    /\ call = NoCall
    /\ phase = "idle"
    /\ tickers = <<>>
    /\ idx = 0
    /\ summary_list = <<>>
    /\ loc = <<>>
    /\ visited = <<>>
    /\ failed = <<>>
    /\ detail = <<>>

\* generate_summary_table is entered with a ticker list
InitBatch ==
    /\ call = NoCall
    /\ phase = "loop"
    /\ tickers \in TickerLists
    /\ idx = 0
    /\ summary_list = <<>>
    /\ loc = <<>>
    /\ visited = <<>>
    /\ failed = <<>>
    /\ detail = <<>>

Next == Resolve

Spec == Init /\ [][Next]_vars

NextEps == ResolveEps

SpecEps == Init /\ [][NextEps]_vars

NextBatch == Iterate \/ ReturnTable

SpecBatch == InitBatch /\ [][NextBatch]_vars

NextDetail == Analyse

SpecDetail == Init /\ [][NextDetail]_vars

(***************************************************************************)
(* Properties of get_pe_ratio_robust                                       *)
(***************************************************************************)
TraceHas(step) == \E k \in DOMAIN call.out.trace : call.out.trace[k] = step

ComputedPathRan ==
    \E step \in {"rate", "quarterly_income_stmt", "income_stmt", "eps", "sanity"} :
        TraceHas(step)

\* the call constructed its Ticker and read an info dict
InfoRead == call.done /\ call.yf.ctor = "ok" /\ call.yf.info.kind = "dict"

\* C1 as stated: whenever the info read carries a reported trailing P/E
\* (not None) or, failing that, a reported forward P/E, the call returns that
\* value and executes no step of the computed path.
C1_ReportedNeverComputes ==
    (InfoRead /\ (call.yf.info.trailingPE # None \/ call.yf.info.forwardPE # None))
    => /\ ~call.out.raised
       /\ call.out.ret = IF call.yf.info.trailingPE # None
                         THEN call.yf.info.trailingPE
                         ELSE call.yf.info.forwardPE
       /\ call.out.trace = <<"Ticker", "info">>
       /\ ~ComputedPathRan

\* C1 amended: whenever the info read carries a non-zero reported trailing
\* P/E or, when that is absent or zero, a non-zero reported forward P/E, the
\* call returns that value and executes no step of the computed path.
C1_NonZeroReportedNeverComputes ==
    (InfoRead /\ (Truthy(call.yf.info.trailingPE) \/ Truthy(call.yf.info.forwardPE)))
    => /\ ~call.out.raised
       /\ call.out.ret = IF Truthy(call.yf.info.trailingPE)
                         THEN call.yf.info.trailingPE
                         ELSE call.yf.info.forwardPE
       /\ call.out.trace = <<"Ticker", "info">>
       /\ ~ComputedPathRan

\* C1 witness: a forward P/E is returned although the statements would give another value
C1_Witness ==
    /\ InfoRead
    /\ ~Truthy(call.yf.info.trailingPE)
    /\ call.yf.info.forwardPE = Whole(30)
    /\ call.out.ret = Whole(30)
    /\ call.yf.quarterly = Frame(<<Row("Basic EPS", <<Num(10), Num(12)>>)>>)
    /\ call.current_price = 100

\* an external call of this invocation raised
SomeCallRaised ==
    \/ call.yf.ctor = "raise"
    \/ TraceHas("info") /\ call.yf.info.kind = "raise"
    \/ TraceHas("rate") /\ call.yf.rate.kind = "raise"
    \/ TraceHas("quarterly_income_stmt") /\ call.yf.quarterly.kind = "raise"
    \/ TraceHas("income_stmt") /\ call.yf.annual.kind = "raise"

\* C2: whichever external call raises, the call still returns to its caller:
\* no exception propagates, and the value returned is a P/E or None.
C2_NeverFails ==
    (call.done /\ SomeCallRaised)
    => /\ ~call.out.raised
       /\ call.out.ret = None \/ call.out.ret.d > 0

\* C3: on the computed path a computed P/E below 5 is returned as None, and
\* every value returned from the computed path is at least 5.
C3_SanityCheck ==
    (call.done /\ ~call.out.raised /\ ComputedPathRan)
    => /\ (call.out.pe_computed # None /\ call.out.pe_computed.n < 5 * call.out.pe_computed.d)
             => call.out.ret = None
       /\ call.out.ret # None
             => /\ call.out.ret.d > 0
                /\ call.out.ret.n >= 5 * call.out.ret.d
                /\ call.out.ret = call.out.pe_computed

\* C3 witness: a P/E of 200/42 was computed and discarded
C3_Witness ==
    /\ call.done
    /\ call.out.pe_computed = Rat(200, 42)
    /\ call.out.ret = None
    /\ TraceHas("sanity")

\* C4: the value returned is None or a positive number, on the reported path
\* as on the computed path.
C4_NeverNegative ==
    (call.done /\ ~call.out.raised)
    => \/ call.out.ret = None
       \/ call.out.ret.d > 0 /\ call.out.ret.n > 0

\* the EPS row of the statement the call read
EpsCellsRead == call.yf.quarterly.rows[2].vals

\* the cells that are neither null nor zero, most recent first
ValidCells == SelectSeq(EpsCellsRead, LAMBDA c : ~c.na /\ c.v # 0)

\* C5: with null and zero entries discarded, TTM EPS is the sum of the 4 most
\* recent remaining values when at least 4 remain, 4 times the most recent
\* one when 1 to 3 remain, and the call returns None when none remain;
\* [1.0, 1.2, null, null] gives 4.0 and [1.0, 1.1, 1.2, 0.9] gives 4.2.
C5_TtmEpsRule ==
    call.done
    => /\ Len(ValidCells) >= 4
            => call.out.ttm_eps_raw = ValidCells[1].v + ValidCells[2].v
                                      + ValidCells[3].v + ValidCells[4].v
       /\ Len(ValidCells) \in 1..3 => call.out.ttm_eps_raw = 4 * ValidCells[1].v
       /\ Len(ValidCells) = 0 => call.out.ret = None /\ call.out.pe_computed = None
       /\ EpsCellsRead = <<Num(10), Num(12), NaN, NaN>> => call.out.ttm_eps_raw = 40
       /\ EpsCellsRead = <<Num(10), Num(11), Num(12), Num(9)>> => call.out.ttm_eps_raw = 42

\* C5 witness: five periods, one null among the first four: the fifth period is summed
C5_Witness ==
    /\ call.done
    /\ EpsCellsRead = <<Num(10), NaN, Num(11), Num(12), Num(9)>>
    /\ call.out.ttm_eps_raw = 42
    /\ call.out.ret = Rat(1000, 42)

\* whether the spot rate fetch gave a usable rate
RateObtained(yf_rate) == yf_rate.kind = "rows" /\ yf_rate.close > 0

\* C9: when the currencies differ and no spot rate is obtained (the fetch
\* raises, returns no rows or a non-positive rate), TSM uses the rate 32.5 and
\* every other ticker resolves to None; no P/E is computed with the rate
\* left at 1.0.
C9_RateFailure ==
    (call.done /\ ~call.out.raised /\ TraceHas("rate") /\ ~RateObtained(call.yf.rate))
    => /\ call.ticker_symbol = "TSM" => call.out.exchange_rate = 325
       /\ call.ticker_symbol # "TSM" => call.out.ret = None
       /\ call.out.pe_computed # None => call.out.exchange_rate # 10

(***************************************************************************)
(* Properties of generate_summary_table                                    *)
(***************************************************************************)
RECURSIVE Kept(_, _)
\* the tickers of ts whose processing did not fail, in order
Kept(ts, fs) ==
    IF ts = <<>> THEN <<>>
    ELSE IF Head(fs) THEN Kept(Tail(ts), Tail(fs))
    ELSE <<Head(ts)>> \o Kept(Tail(ts), Tail(fs))

RowTickers == [k \in DOMAIN summary_list |-> summary_list[k].ticker]

\* C6: whichever tickers fail, the loop visits every ticker of the list, and
\* the table holds exactly one row per ticker that did not fail, in list
\* order, and none for a failed ticker.
C6_BatchIsolation ==
    /\ Len(failed) = Len(visited)
    /\ RowTickers = Kept(visited, failed)
    /\ phase = "returned" => visited = tickers

\* C6 witness: the first ticker failed and the second still got its row
C6_Witness ==
    /\ phase = "returned"
    /\ Len(tickers) >= 2
    /\ failed[1]
    /\ ~failed[2]
    /\ summary_list[1].ticker = tickers[2]

RsiWeight(l) == IF l.rsi < 30 THEN 3 ELSE IF l.rsi > 70 THEN -2 ELSE 1

TrendWeight(l) == IF l.current_price > l.ma_50 THEN 3 ELSE -1

PeWeight(l) ==
    IF l.pe = None THEN 1
    ELSE IF l.pe.n < 25 * l.pe.d THEN 4
    ELSE IF l.pe.n > 60 * l.pe.d THEN -2
    ELSE 2

\* C7 as stated: the score of a row is the sum of its RSI, trend and P/E
\* weights, and lies between 0 and 10.
C7_ScoreZeroToTen ==
    \A k \in DOMAIN loc :
        /\ loc[k].score = RsiWeight(loc[k]) + TrendWeight(loc[k]) + PeWeight(loc[k])
        /\ 0 <= loc[k].score
        /\ loc[k].score <= 10

\* C7 amended: the score of a row is the sum of its RSI, trend and P/E
\* weights, and lies between -5 and 10.
C7_ScoreMinusFiveToTen ==
    \A k \in DOMAIN loc :
        /\ loc[k].score = RsiWeight(loc[k]) + TrendWeight(loc[k]) + PeWeight(loc[k])
        /\ -5 <= loc[k].score
        /\ loc[k].score <= 10
        /\ summary_list[Len(summary_list)].score = loc[k].score

\* C7 witness: overbought, not above the average and expensive: the lowest score
C7_Witness ==
    /\ loc # <<>>
    /\ loc[1].rsi = 80
    /\ loc[1].ma_50 = 100
    /\ loc[1].pe = Whole(80)
    /\ loc[1].score = -5
    /\ summary_list[Len(summary_list)].suggestion = "sell"

\* C10: with fewer than 50 bars the trend signal is omitted: it adds 0 to the
\* batch score, and the single-ticker analysis does not report the price as
\* above a 50-MA that was zero-filled.
C10_TrendOmitted ==
    /\ \A k \in DOMAIN loc :
          loc[k].nbars < 50
          => loc[k].score = RsiWeight(loc[k]) + PeWeight(loc[k])
    /\ \A k \in DOMAIN detail :
          detail[k].nbars < 50
          => /\ detail[k].current_ma50 # 0
             /\ detail[k].reasons[2] # Line("Trend", "ok")

(***************************************************************************)
(* Properties of the single-ticker analysis                                *)
(***************************************************************************)
Signals(reasons) == [k \in DOMAIN reasons |-> reasons[k].signal]

\* C8 as stated: the rationale holds three lines, one per signal, in the
\* order RSI, P/E, Trend.
C8_RsiPeTrend ==
    \A k \in DOMAIN detail : Signals(detail[k].reasons) = <<"RSI", "PE", "Trend">>

\* C8 amended: the rationale, whenever it is built, holds three lines, one
\* per signal, in the order RSI, Trend, P/E.
C8_RsiTrendPe ==
    /\ phase = "analysed" => Len(detail) = 1
    /\ \A k \in DOMAIN detail : Signals(detail[k].reasons) = <<"RSI", "Trend", "PE">>

\* C8 witness: RSI undefined and no P/E: still one line per signal
C8_Witness ==
    /\ phase = "analysed"
    /\ detail[1].current_rsi = NaN
    /\ detail[1].pe = None
    /\ detail[1].reasons = <<Line("RSI", "info"), Line("Trend", "ok"), Line("PE", "warn")>>

=============================================================================
